---------------------------- MODULE Spec2Model ----------------------------
(* A model of the laydown React renderer (laydown-react, node-renderer.tsx)  *)
(* and of the laydown syntax extension table, together with the parts of the *)
(* laydown core the renderer rides on (macro store, navigation builder,      *)
(* layout-slot partitioner).                                                 *)
EXTENDS Integers, Sequences, FiniteSets, TLC

VARIABLES
  options,     \* LaydownNodeRenderer.options (readonly after construction)
  call,        \* the operation that ran last
  node,        \* the node (or type string) it was given
  children,    \* the rendered children it was given
  out,         \* what it returned, or that it threw
  macroStore,  \* context.macroStore: (scope, attribute) -> value
  phase,       \* "absorb" while markers are recorded, "render" afterwards
  navLevel,    \* nav builder: level of the i-th heading fed
  navParent,   \* nav builder: parent of the i-th nav node (0: the root)
  navStack,    \* nav builder: the open ancestors, outermost first
  navOut,      \* the nav tree result() handed back
  layItems,    \* layout pass: the top-level item sequence (blocks and markers)
  layPos,      \* layout pass: number of items already scanned
  laySlots,    \* layout pass: the slots opened so far
  layStack,    \* layout pass: the open slots, outermost first
  layOut,      \* layout pass: the rendered slots, once the input is exhausted
  syntax       \* the exported ExtendedSyntaxOptions table

vars == <<options, call, node, children, out, macroStore, phase,
          navLevel, navParent, navStack, navOut,
          layItems, layPos, laySlots, layStack, layOut, syntax>>

renderVars == <<options, call, node, children, out>>
macroVars  == <<macroStore, phase>>
navVars    == <<navLevel, navParent, navStack, navOut>>
layVars    == <<layItems, layPos, laySlots, layStack, layOut>>

-----------------------------------------------------------------------------
(* JavaScript values, as far as the renderer tells them apart.               *)

Undefined == [t |-> "undefined", n |-> 0, s |-> ""]
Null      == [t |-> "null", n |-> 0, s |-> ""]
Num(i)    == [t |-> "number", n |-> i, s |-> ""]
Str(x)    == [t |-> "string", n |-> 0, s |-> x]
Bool(b)   == [t |-> "boolean", n |-> IF b THEN 1 ELSE 0, s |-> ""]

\* x == undefined, x ?? y : null and undefined are the nullish values
IsNullish(v) == v.t \in {"undefined", "null"}

\* a ?? b
Coalesce(a, b) == IF IsNullish(a) THEN b ELSE a

\* !!v
Truthy(v) ==
  CASE v.t = "undefined" -> FALSE
    [] v.t = "null"      -> FALSE
    [] v.t = "number"    -> v.n # 0
    [] v.t = "string"    -> v.s # ""
    [] v.t = "boolean"   -> v.n = 1

-----------------------------------------------------------------------------
(* React elements: a tag, the props handed to it, its children.              *)

NoProps == <<>>

Elem(tag, props, kids) == [tag |-> tag, props |-> props, kids |-> kids, text |-> ""]
Text(s)                == [tag |-> "#text", props |-> NoProps, kids |-> <<>>, text |-> s]
Fragment(kids)         == Elem("<>", NoProps, kids)

\* an attribute reaches the output iff its prop is neither undefined nor null
HasAttr(e, a) == a \in DOMAIN e.props /\ ~IsNullish(e.props[a])

RECURSIVE ContainsText(_, _)
ContainsText(e, s) ==
  \/ e.tag = "#text" /\ e.text = s
  \/ \E i \in DOMAIN e.kids : ContainsText(e.kids[i], s)

UnsafeLinkNotice == "[ERROR: POTENTIALLY UNSAFE LINK OMITTED]"

\* the children keyed in reverse order
resetChildrenKeyReversed(c) ==
  [i \in DOMAIN c |-> Elem("<>", ("key" :> Num(i - 1)), <<c[Len(c) + 1 - i]>>)]

\* resetChildrenKey: c.map((n, i) => <Fragment key=node_i>{n}</Fragment>)
resetChildrenKey(c) ==
  [i \in DOMAIN c |-> Elem("<>", ("key" :> Num(i - 1)), <<c[i]>>)]

-----------------------------------------------------------------------------
(* Nodes of the extended tree.  Every node carries every accessor; the ones  *)
(* that do not apply to its type read undefined or null.  anc lists the      *)
(* node's ancestors, nearest first: anc[1] is node.parent, anc[2] is         *)
(* node.parent.parent.                                                       *)

BaseNode ==
  [type |-> "text", literal |-> Null, destination |-> Null, title |-> Null,
   listType |-> Undefined, listStart |-> Undefined, listTight |-> Undefined,
   level |-> 0, anc |-> <<>>]

Ancestor(type, tight) == [type |-> type, listTight |-> tight]

\* what a call returned
NoElem       == Text("")
NoFn         == [kind |-> "none", target |-> "", yields |-> NoElem]
RetElem(e)   == [threw |-> FALSE, kind |-> "element", elem |-> e, str |-> "", fn |-> NoFn]
RetStr(s)    == [threw |-> FALSE, kind |-> "string", elem |-> NoElem, str |-> s, fn |-> NoFn]
RetFn(f)     == [threw |-> FALSE, kind |-> "function", elem |-> NoElem, str |-> "", fn |-> f]
Thrown(msg)  == [threw |-> TRUE, kind |-> "error", elem |-> NoElem, str |-> msg, fn |-> NoFn]

-----------------------------------------------------------------------------
(* LaydownNodeRenderer                                                       *)

\* constructor: Object.assign({ softbreak: '\n' }, options)
NewOptions(safe, esc, parseLink) ==
  [softbreak |-> Str("\n"), safe |-> safe, esc |-> esc, parseLink |-> parseLink]

\* the caller's optional callbacks options.esc and options.parseLink
Esc(s)       == "esc:" \o s
ParseLink(s) == "parsed:" \o s

\* destinations matching the unsafe pattern
UnsafeUrls == {"javascript:alert(1)"}

potentiallyUnsafe(dest) == dest.t = "string" /\ dest.s \in UnsafeUrls

link(opts, n, c) ==
  LET href  == IF ~(Truthy(opts.safe) /\ potentiallyUnsafe(n.destination))
               THEN Coalesce(n.destination, Undefined)
               ELSE Undefined
      title == IF Truthy(n.title) THEN n.title ELSE Undefined
  IN  Elem("a", ("href" :> href) @@ ("title" :> title), c)

image(opts, n) ==
  IF Truthy(opts.safe) /\ potentiallyUnsafe(n.destination)
  THEN Elem("span", NoProps, <<Text(UnsafeLinkNotice)>>)
  ELSE LET d   == Coalesce(n.destination, Str(""))
           src == IF opts.esc THEN Str(Esc(d.s)) ELSE d
           s2  == IF opts.parseLink THEN Str(ParseLink(src.s)) ELSE src
       IN  Elem("img", ("src" :> s2), <<>>)

\* the tightness test made on the parent instead of the grandparent
paragraphOfParent(n, c) ==
  IF /\ Len(n.anc) >= 1
     /\ n.anc[1].type = "list"
     /\ Truthy(n.anc[1].listTight)
  THEN Fragment(c)
  ELSE Elem("p", NoProps, c)

paragraph(n, c) ==
  IF /\ Len(n.anc) >= 2
     /\ n.anc[2].type = "list"
     /\ Truthy(n.anc[2].listTight)
  THEN Fragment(c)
  ELSE Elem("p", NoProps, c)

\* the start value passed on without the test against 1
listKeepsStart(n, c) ==
  IF n.listType = Str("bullet")
  THEN Elem("ul", NoProps, c)
  ELSE Elem("ol", ("start" :> n.listStart), c)

list(n, c) ==
  LET start  == n.listStart
      _start == IF start # Undefined /\ start # Num(1) THEN start ELSE Undefined
  IN  IF n.listType = Str("bullet")
      THEN Elem("ul", NoProps, c)
      ELSE Elem("ol", ("start" :> _start), c)

\* the render functions LaydownNodeRenderer declares
RenderMethods ==
  {"text", "softbreak", "linebreak", "link", "image", "emph", "strong",
   "html_inline", "html_block", "code", "code_block", "paragraph",
   "block_quote", "item", "list", "heading", "thematic_break", "document",
   "math_block", "math_inline", "table", "table_head", "table_row",
   "table_cell", "html_paragraph", "html_paragraph_text", "template", "emoji"}

\* this.inner[type]: the own field, the class's prototype members, else undefined
InnerMember(type) ==
  CASE type = "options"        -> "object"
    [] type = "constructor"    -> "class"
    [] type \in RenderMethods  -> "method"
    [] OTHER                   -> "undefined"

-----------------------------------------------------------------------------
(* LaydownReactRenderer                                                      *)

Placeholder(type) ==
  Fragment(<<Text("[WARNING: Type "), Text(type), Text("'s renderer not found]")>>)

getRenderer(type) ==
  LET ret == InnerMember(type)
  IN  IF ret = "undefined"
      THEN RetFn([kind |-> "placeholder", target |-> type, yields |-> Placeholder(type)])
      ELSE IF ret = "object"
      THEN Thrown("TypeError: ret.bind is not a function")
      ELSE RetFn([kind |-> "bound", target |-> type, yields |-> NoElem])

\* deepFilterStringChildren: the text of a rendered subtree
RECURSIVE deepFilterStringChildren(_)
RECURSIVE JoinText(_)
JoinText(kids) ==
  IF kids = <<>> THEN ""
  ELSE deepFilterStringChildren(Head(kids)) \o JoinText(Tail(kids))
deepFilterStringChildren(e) ==
  IF e.tag = "#text" THEN e.text ELSE JoinText(e.kids)

\* the final throw replaced by an empty result
stringifySilent(n, c) ==
  IF n.type = "html_block" \/ n.type = "html_inline"
  THEN RetStr(Coalesce(n.literal, Str("")).s)
  ELSE IF n.type = "heading" \/ n.type = "paragraph"
  THEN RetStr(deepFilterStringChildren(Fragment(c)))
  ELSE RetStr("")

stringify(n, c) ==
  IF n.type = "html_block" \/ n.type = "html_inline"
  THEN RetStr(Coalesce(n.literal, Str("")).s)
  ELSE IF n.type = "heading" \/ n.type = "paragraph"
  THEN RetStr(deepFilterStringChildren(Fragment(c)))
  ELSE Thrown("Error: Method not implemented.")

-----------------------------------------------------------------------------
(* Syntax extension table (ExtendedSyntaxOptions)                            *)

\* commonmark's own maybe-special characters (the backtick is spelled out)
DefaultMaybeSpecial ==
  {"#", "backtick", "~", "*", "+", "_", "=", "<", ">", "-",
   "0", "1", "2", "3", "4", "5", "6", "7", "8", "9"}

\* compileMaybeSpecialRegExp(...chars, useDefault): the class of the given
\* characters, joined with commonmark's own when the flag is passed
compileMaybeSpecialRegExp(chars, useDefault) ==
  chars \cup (IF useDefault THEN DefaultMaybeSpecial ELSE {})

ExtendedSyntaxOptions ==
  [blockHandlers |-> {"table", "table_head", "table_row", "table_cell", "math_block"},
   blockStartHandlers |-> ((-1) :> <<"TableTrigger">>) @@ (2 :> <<"MathTrigger">>),
   reMaybeSpecial |-> compileMaybeSpecialRegExp({"$", "|"}, TRUE),
   inlineHandlers |-> << <<"$", "parseInlineMathFence">>,
                         <<"@", "parseInlineTemplate">>,
                         <<":", "parseInlineEmoji">> >>]

-----------------------------------------------------------------------------
(* Macro store and headings                                                  *)

MaxLevel == 2
MaxMarkers == 2

HeadingTags == {"h" \o ToString(l) : l \in 1..MaxLevel}
MacroScopes == HeadingTags \cup {"heading"}
MacroAttrs  == {"align-center", "no-link"}

\* what a marker may attach: the bare flag, or the literal after the hash
MacroValues == {Bool(TRUE), Str(""), Str("test-hash")}

EmptyStore == [k \in MacroScopes \X MacroAttrs |-> Undefined]

\* macroStore.record(scopeKey, attribute, value)
record(store, scope, attr, value) == [store EXCEPT ![<<scope, attr>>] = value]

\* macroStore.check(scopeKey, attribute)
check(store, scope, attr) ==
  IF <<scope, attr>> \in DOMAIN store THEN store[<<scope, attr>>] ELSE Undefined

\* href.replace(/^#?/, '') on the anchors a pass hands out
StripHash(s) ==
  CASE s = "#test-hash" -> "test-hash"
    [] s = "#null"      -> "null"
    [] OTHER            -> s

\* the lookup made at the generic scope only
resolveGenericOnly(store, tag, attr) == check(store, "heading", attr)

\* check(HeadingTag, attr) ?? check('heading', attr)
resolveAttr(store, tag, attr) ==
  Coalesce(check(store, tag, attr), check(store, "heading", attr))

TitleAnchor(to, id, noClick) ==
  Elem("div", ("className" :> Str("title-anchor")),
    << Elem("div", NoProps,
         << Elem("span", ("className" :> Str("title-id")) @@ ("id" :> id), <<>>) >>
         \o (IF ~Truthy(noClick)
             THEN << Elem("a", ("href" :> to), << Elem("img", NoProps, <<>>) >>) >>
             ELSE <<>>)) >>)

heading(ctx, n, c) ==
  LET HeadingTag == "h" \o ToString(n.level)
      href == Coalesce(ctx.navHref, Str("#null"))
      shouldAlignCenter ==
        resolveAttr(ctx.macroStore, HeadingTag, "align-center") # Undefined
      noClick ==
        Bool(Truthy(resolveAttr(ctx.macroStore, HeadingTag, "no-link")))
  IN  Elem(HeadingTag,
           ("style" :> IF shouldAlignCenter THEN Str("textAlign: center") ELSE Undefined),
           <<TitleAnchor(href, Str(StripHash(href.s)), noClick)>> \o c)

-----------------------------------------------------------------------------
(* Inputs                                                                    *)

ChildrenInputs ==
  { <<>>, <<Text("label")>>, <<Elem("em", NoProps, <<Text("a")>>), Text("b")>> }

Destinations ==
  {Null, Str("javascript:alert(1)"), Str("https://example.org/"), Str("")}

Titles == {Null, Str("tip")}

ListTypes  == {Str("bullet"), Str("ordered")}
ListStarts == {Undefined, Null, Num(0), Num(1), Num(5)}

Tightness == {Undefined, Bool(TRUE), Bool(FALSE)}

AncestorInputs ==
  {Ancestor("document", Undefined), Ancestor("item", Undefined)}
    \cup {Ancestor("list", t) : t \in {Bool(TRUE), Bool(FALSE)}}

MaxDepth == 2

Ancestries == UNION {[1..d -> AncestorInputs] : d \in 0..MaxDepth}

Literals == {Null, Str(""), Str("<b>x</b>")}

TypeInputs ==
  RenderMethods \cup {"footnote", "layout", "options", "constructor"}

NavHrefs == {Undefined, Str("#test-hash")}

-----------------------------------------------------------------------------
(* The renderer's operations                                                 *)

Returns(op, n, c, r) ==
  /\ call' = op
  /\ node' = n
  /\ children' = c
  /\ out' = r

GetRenderer ==
  \E type \in TypeInputs :
    /\ Returns("getRenderer", [BaseNode EXCEPT !.type = type], <<>>, getRenderer(type))
    /\ UNCHANGED <<options, macroVars, navVars, layVars, syntax>>

Stringify ==
  \E type \in TypeInputs \ {"options", "constructor"}, l \in Literals, c \in ChildrenInputs :
    LET n == [BaseNode EXCEPT !.type = type, !.literal = l]
    IN  /\ Returns("stringify", n, c, stringify(n, c))
        /\ UNCHANGED <<options, macroVars, navVars, layVars, syntax>>

Link ==
  \E d \in Destinations, t \in Titles, c \in ChildrenInputs :
    LET n == [BaseNode EXCEPT !.type = "link", !.destination = d, !.title = t]
    IN  /\ Returns("link", n, c, RetElem(link(options, n, c)))
        /\ UNCHANGED <<options, macroVars, navVars, layVars, syntax>>

Image ==
  \E d \in Destinations :
    LET n == [BaseNode EXCEPT !.type = "image", !.destination = d]
    IN  /\ Returns("image", n, <<>>, RetElem(image(options, n)))
        /\ UNCHANGED <<options, macroVars, navVars, layVars, syntax>>

List ==
  \E lt \in ListTypes, ls \in ListStarts, tight \in {Bool(TRUE), Bool(FALSE)},
     c \in ChildrenInputs :
    LET n == [BaseNode EXCEPT !.type = "list", !.listType = lt, !.listStart = ls,
                              !.listTight = tight]
    IN  /\ Returns("list", n, c, RetElem(list(n, c)))
        /\ UNCHANGED <<options, macroVars, navVars, layVars, syntax>>

Paragraph ==
  \E a \in Ancestries, c \in ChildrenInputs :
    LET n == [BaseNode EXCEPT !.type = "paragraph", !.anc = a]
    IN  /\ Returns("paragraph", n, c, RetElem(paragraph(n, c)))
        /\ UNCHANGED <<options, macroVars, navVars, layVars, syntax>>

\* the marker-absorption pass records one annotation
Record ==
  /\ phase = "absorb"
  /\ \E scope \in MacroScopes, attr \in MacroAttrs, v \in MacroValues :
       /\ Cardinality({k \in DOMAIN macroStore : macroStore[k] # Undefined}
                       \cup {<<scope, attr>>}) <= MaxMarkers
       /\ macroStore' = record(macroStore, scope, attr, v)
  /\ UNCHANGED <<phase, renderVars, navVars, layVars, syntax>>

\* the render walk starts: from here on the store is only read
BeginRender ==
  /\ phase = "absorb"
  /\ phase' = "render"
  /\ UNCHANGED <<macroStore, renderVars, navVars, layVars, syntax>>

Heading ==
  /\ phase = "render"
  /\ \E l \in 1..MaxLevel, h \in NavHrefs, c \in ChildrenInputs :
       LET n   == [BaseNode EXCEPT !.type = "heading", !.level = l]
           ctx == [navHref |-> h, macroStore |-> macroStore]
       IN  Returns("heading", n, c, RetElem(heading(ctx, n, c)))
  /\ UNCHANGED <<options, macroVars, navVars, layVars, syntax>>

-----------------------------------------------------------------------------
(* Navigation builder: rides the render walk, one call per heading.          *)

MaxHeadings == 4
MaxNavLevel == 3

Last(q) == q[Len(q)]
Front(q) == SubSeq(q, 1, Len(q) - 1)

\* equal levels left open: only strictly deeper ancestors are closed
RECURSIVE closeDeeperOnly(_, _, _)
closeDeeperOnly(stack, levels, k) ==
  IF stack = <<>> \/ levels[Last(stack)] <= k
  THEN stack
  ELSE closeDeeperOnly(Front(stack), levels, k)

\* close the open ancestors a heading of level k does not nest under
RECURSIVE closeAncestors(_, _, _)
closeAncestors(stack, levels, k) ==
  IF stack = <<>> \/ levels[Last(stack)] < k
  THEN stack
  ELSE closeAncestors(Front(stack), levels, k)

NavHeading ==
  /\ Len(navLevel) < MaxHeadings
  /\ \E k \in 1..MaxNavLevel :
       LET open == closeAncestors(navStack, navLevel, k)
           new  == Len(navLevel) + 1
       IN  /\ navLevel' = Append(navLevel, k)
           /\ navParent' = Append(navParent, IF open = <<>> THEN 0 ELSE Last(open))
           /\ navStack' = Append(open, new)
  /\ UNCHANGED <<navOut, renderVars, macroVars, layVars, syntax>>

\* super.result(): the accumulated nav tree, undefined when no heading was fed
NavTree == [defined |-> navLevel # <<>>, level |-> navLevel, parent |-> navParent]

\* LaydownReactRenderer.result()
result(super) ==
  [nav |-> super.nav, render |-> resetChildrenKey(super.render)]

Result ==
  \E r \in ChildrenInputs :
    LET res == result([nav |-> NavTree, render |-> r])
    IN  /\ navOut' = res.nav
        /\ Returns("result", BaseNode, r, RetElem(Fragment(res.render)))
        /\ UNCHANGED <<navLevel, navParent, navStack, options, macroVars, layVars, syntax>>

-----------------------------------------------------------------------------
(* Layout-slot partitioner: one left-to-right scan over the top-level items. *)

MaxItems == 4

Block           == [kind |-> "block", name |-> "", nested |-> FALSE]
Marker(nm, nst) == [kind |-> "marker", name |-> nm, nested |-> nst]

ItemInputs == {Block, Marker("", FALSE), Marker("side", FALSE), Marker("", TRUE)}

ItemSequences == UNION {[1..len -> ItemInputs] : len \in 0..MaxItems}

\* the rendered top-level block found at position p
RenderedBlock(p) == Text("block " \o ToString(p))

Slot(nm, par, mk) == [name |-> nm, parent |-> par, marker |-> mk, content |-> <<>>]
BlockEntry(p) == [kind |-> "block", ref |-> p]
SlotEntry(i)  == [kind |-> "slot", ref |-> i]

\* append an entry to slot i's content
AddContent(slots, i, e) == [slots EXCEPT ![i].content = Append(@, e)]

LayoutBlock ==
  /\ layPos < Len(layItems)
  /\ layItems[layPos + 1].kind = "block"
  /\ layPos' = layPos + 1
  /\ IF layStack = <<>>
     THEN \* no marker yet: the implicit default slot opens and becomes current
          /\ laySlots' = AddContent(Append(laySlots, Slot("", 0, 0)),
                                    Len(laySlots) + 1, BlockEntry(layPos + 1))
          /\ layStack' = <<Len(laySlots) + 1>>
     ELSE /\ laySlots' = AddContent(laySlots, Last(layStack), BlockEntry(layPos + 1))
          /\ layStack' = layStack
  /\ UNCHANGED <<layItems, layOut, renderVars, macroVars, navVars, syntax>>

LayoutMarker ==
  /\ layPos < Len(layItems)
  /\ layItems[layPos + 1].kind = "marker"
  /\ layPos' = layPos + 1
  /\ LET m   == layItems[layPos + 1]
         new == Len(laySlots) + 1
         par == IF m.nested /\ layStack # <<>> THEN Last(layStack) ELSE 0
         opened == Append(laySlots, Slot(m.name, par, layPos + 1))
     IN  /\ laySlots' = IF par = 0 THEN opened ELSE AddContent(opened, par, SlotEntry(new))
         /\ layStack' = IF par = 0 THEN <<new>> ELSE Append(layStack, new)
  /\ UNCHANGED <<layItems, layOut, renderVars, macroVars, navVars, syntax>>

\* LaydownReactRenderer.renderLayoutSlot(params, children)
renderLayoutSlot(params, c) ==
  Elem("ReactLayoutSlot", ("name" :> params.name), resetChildrenKey(c))

\* LaydownReactRenderer.renderLayout(params, children)
renderLayout(params, c) ==
  Elem("ReactLayout", NoProps, resetChildrenKey(c))

RECURSIVE RenderSlot(_, _)
RenderSlot(slots, i) ==
  LET s == slots[i]
      kid(e) == IF e.kind = "block" THEN RenderedBlock(e.ref) ELSE RenderSlot(slots, e.ref)
  IN  renderLayoutSlot([name |-> IF s.name = "" THEN Undefined ELSE Str(s.name)],
                       [j \in DOMAIN s.content |-> kid(s.content[j])])

TopSlots(slots) == SelectSeq([i \in DOMAIN slots |-> i], LAMBDA i : slots[i].parent = 0)

\* end of input: every open slot closes, the forest is rendered
LayoutEnd ==
  /\ layPos = Len(layItems)
  /\ ~layOut.done
  /\ LET tops == TopSlots(laySlots)
     IN  layOut' = [done |-> TRUE,
                    root |-> renderLayout([x |-> 0],
                               [j \in DOMAIN tops |-> RenderSlot(laySlots, tops[j])])]
  /\ layStack' = <<>>
  /\ UNCHANGED <<layItems, layPos, laySlots, renderVars, macroVars, navVars, syntax>>

-----------------------------------------------------------------------------
(* Specifications                                                            *)

InitRenderer(opts) ==
  /\ options = opts
  /\ call = "new"
  /\ node = BaseNode
  /\ children = <<>>
  /\ out = [threw |-> FALSE, kind |-> "none", elem |-> NoElem, str |-> "", fn |-> NoFn]

InitMacro ==
  /\ macroStore = EmptyStore
  /\ phase = "absorb"
  /\ syntax = ExtendedSyntaxOptions

InitNav ==
  /\ navLevel = <<>>
  /\ navParent = <<>>
  /\ navStack = <<>>
  /\ navOut = [defined |-> FALSE, level |-> <<>>, parent |-> <<>>]

InitLayout(items) ==
  /\ layItems = items
  /\ layPos = 0
  /\ laySlots = <<>>
  /\ layStack = <<>>
  /\ layOut = [done |-> FALSE, root |-> NoElem]

OptionInputs ==
  {NewOptions(s, e, p) : s \in {Undefined, Bool(TRUE), Bool(FALSE)},
                         e \in BOOLEAN, p \in BOOLEAN}

\* the node renderer's render functions, under every option set
Init ==
  /\ \E o \in OptionInputs : InitRenderer(o)
  /\ InitMacro
  /\ InitNav
  /\ InitLayout(<<>>)

Next ==
  \/ Link
  \/ Image
  \/ List
  \/ Paragraph

Spec == Init /\ [][Next]_vars

\* one render pass over headings: markers absorbed first, then the walk
InitPass ==
  /\ InitRenderer(NewOptions(Undefined, FALSE, FALSE))
  /\ InitMacro
  /\ InitNav
  /\ InitLayout(<<>>)

NextHeading ==
  \/ Record
  \/ BeginRender
  \/ Heading

SpecHeading == InitPass /\ [][NextHeading]_vars

\* the dispatching renderer: type lookup and textual extraction
NextDispatch ==
  \/ GetRenderer
  \/ Stringify

SpecDispatch == InitPass /\ [][NextDispatch]_vars

\* the nav builder fed heading by heading, and the result handed back
NextNav ==
  \/ NavHeading
  \/ Result

SpecNav == InitPass /\ [][NextNav]_vars

\* one layout pass over each bounded item sequence
InitLayoutPass ==
  /\ InitRenderer(NewOptions(Undefined, FALSE, FALSE))
  /\ InitMacro
  /\ InitNav
  /\ \E items \in ItemSequences : InitLayout(items)

NextLayout ==
  \/ LayoutBlock
  \/ LayoutMarker
  \/ LayoutEnd

SpecLayout == InitLayoutPass /\ [][NextLayout]_vars

-----------------------------------------------------------------------------
(* Properties                                                                *)

\* C1: for every type string with no registered render function, getRenderer
\* does not throw and returns a function yielding a placeholder that names the
\* type -- also when the string names a non-render member of the node renderer.
C1_UnregisteredYieldsPlaceholder ==
  (call = "getRenderer" /\ node.type \notin RenderMethods) =>
    /\ ~out.threw
    /\ out.fn.kind = "placeholder"
    /\ ContainsText(out.fn.yields, node.type)

\* C2 (as claimed): stringify returns a string for heading, paragraph and
\* html_block nodes and raises for a node of any other type.
C2_OnlyThreeTextualTypes ==
  call = "stringify" =>
    IF node.type \in {"heading", "paragraph", "html_block"}
    THEN ~out.threw /\ out.kind = "string"
    ELSE out.threw

\* C2 (amended): stringify returns a string, without raising, for heading,
\* paragraph, html_block and html_inline nodes, and raises (never returning a
\* string, empty or not) for a node of any other type.
C2_TextualTypesOnly ==
  call = "stringify" =>
    IF node.type \in {"heading", "paragraph", "html_block", "html_inline"}
    THEN ~out.threw /\ out.kind = "string"
    ELSE out.threw /\ out.kind # "string"

C2_Witness ==
  call = "stringify" /\ node.type = "table" /\ out.threw

\* C3: every leading character that owns an inline handler is in the shared
\* maybe-special class, and no leading character has two inline handlers.
C3_InlineLeadsAreMaybeSpecial ==
  LET h == syntax.inlineHandlers
  IN  /\ \A i \in DOMAIN h : h[i][1] \in syntax.reMaybeSpecial
      /\ \A i, j \in DOMAIN h : h[i][1] = h[j][1] => i = j

\* C6: a link whose destination matches the unsafe pattern renders, with
\* safe=true, the omission notice and no href; with safe=false, the
\* destination verbatim as href.
C6_SafeModeLink ==
  (call = "link" /\ potentiallyUnsafe(node.destination)) =>
    /\ options.safe = Bool(TRUE) =>
         ContainsText(out.elem, UnsafeLinkNotice) /\ ~HasAttr(out.elem, "href")
    /\ options.safe = Bool(FALSE) =>
         HasAttr(out.elem, "href") /\ out.elem.props["href"] = node.destination

\* C8: a list renders a start attribute iff it is ordered and its start value
\* is defined and differs from 1, and then renders that value; a bullet list
\* is a ul without a start attribute.
C8_ListStart ==
  call = "list" =>
    /\ HasAttr(out.elem, "start") <=>
         /\ node.listType = Str("ordered")
         /\ ~IsNullish(node.listStart)
         /\ node.listStart # Num(1)
    /\ HasAttr(out.elem, "start") => out.elem.props["start"] = node.listStart
    /\ node.listType = Str("bullet") => out.elem.tag = "ul"
    /\ node.listType = Str("ordered") => out.elem.tag = "ol"

C8_Witness ==
  /\ call = "list"
  /\ node.listType = Str("ordered")
  /\ node.listStart = Num(5)
  /\ HasAttr(out.elem, "start")

\* C10: a paragraph renders its children with no wrapping block iff its
\* grandparent exists, is a list and is tight; every other paragraph is a p
\* around its children.
C10_ParagraphTightness ==
  call = "paragraph" =>
    LET unwrapped == /\ Len(node.anc) >= 2
                     /\ node.anc[2].type = "list"
                     /\ node.anc[2].listTight = Bool(TRUE)
    IN  /\ out.elem.tag = (IF unwrapped THEN "<>" ELSE "p")
        /\ out.elem.kids = children

C10_Witness ==
  /\ call = "paragraph"
  /\ Len(node.anc) = 2
  /\ node.anc[1].type = "item"
  /\ node.anc[2] = Ancestor("list", Bool(TRUE))
  /\ out.elem.tag = "<>"

\* C7: for a heading of level n, align-center resolves to the value at scope
\* h<n> when one is recorded, else to the value at scope heading; the heading
\* is centred iff one of the two scopes has it recorded, and renders either way.
C7_AlignCenter ==
  call = "heading" =>
    LET tag == "h" \o ToString(node.level)
        own == check(macroStore, tag, "align-center")
        gen == check(macroStore, "heading", "align-center")
        got == resolveAttr(macroStore, tag, "align-center")
    IN  /\ got = (IF own # Undefined THEN own ELSE gen)
        /\ HasAttr(out.elem, "style") <=> (own # Undefined \/ gen # Undefined)
        /\ ~out.threw
        /\ out.elem.tag = tag

C7_Witness ==
  /\ call = "heading"
  /\ node.level = 2
  /\ check(macroStore, "h2", "align-center") = Undefined
  /\ check(macroStore, "heading", "align-center") = Bool(TRUE)
  /\ HasAttr(out.elem, "style")

\* C9: every heading emits the anchor target carrying the anchor id; the
\* clickable link is omitted iff a no-link annotation is recorded at scope
\* h<n> or at scope heading, whatever its value.
C9_NoLink ==
  call = "heading" =>
    LET tag == "h" \o ToString(node.level)
        recorded == \/ check(macroStore, tag, "no-link") # Undefined
                    \/ check(macroStore, "heading", "no-link") # Undefined
        anchor == out.elem.kids[1].kids[1]
    IN  /\ anchor.kids[1].tag = "span" /\ HasAttr(anchor.kids[1], "id")
        /\ (\E i \in DOMAIN anchor.kids : anchor.kids[i].tag = "a") <=> ~recorded

\* every child of the nav tree lies strictly deeper than its parent
PathsIncrease(level, parent) ==
  \A i \in DOMAIN level : parent[i] # 0 => level[parent[i]] < level[i]

\* a step that feeds a heading of level k keeps open exactly the ancestors of
\* level < k and attaches the heading under the innermost of them
ClosesExactly ==
  Len(navLevel') = Len(navLevel) + 1 =>
    LET new  == Len(navLevel')
        k    == navLevel'[new]
        kept == SelectSeq(navStack, LAMBDA i : navLevel[i] < k)
    IN  /\ navStack' = Append(kept, new)
        /\ navParent'[new] = (IF kept = <<>> THEN 0 ELSE Last(kept))
        /\ \A i \in 1..Len(navStack) :
             (navLevel[navStack[i]] >= k) <=>
               (\A j \in DOMAIN navStack' : navStack'[j] # navStack[i])

\* C4: for every sequence of heading levels fed in document order, every path
\* of the nav tree (the builder's, and the one result() hands back) has
\* strictly increasing level, and a heading of level k closes exactly the open
\* ancestors of level >= k before it is attached.
C4_NavNesting ==
  /\ [](PathsIncrease(navLevel, navParent) /\ PathsIncrease(navOut.level, navOut.parent))
  /\ [][/\ ClosesExactly
        /\ (call' = "result" /\ navLevel' = navLevel) => navOut' = NavTree']_vars

C4_Witness ==
  /\ navLevel = <<1, 2, 3, 2>>
  /\ navParent = <<0, 1, 2, 1>>
  /\ navStack = <<1, 4>>

\* the positions of the markers of the input, in order
MarkerPositions(items) ==
  SelectSeq([p \in DOMAIN items |-> p], LAMBDA p : items[p].kind = "marker")

\* the openers of the expected slots: 0 for the implicit default slot
ExpectedOpeners(items) ==
  (IF items # <<>> /\ items[1].kind = "block" THEN <<0>> ELSE <<>>)
    \o MarkerPositions(items)

\* the child of a keyed wrapper
Unkeyed(e) == e.kids[1]

=============================================================================
